---- MODULE Spec2Model ----
(***************************************************************************)
(* git-dig (src/git_dig.py): the dependencies of a commit.                 *)
(*                                                                         *)
(* Three specifications over one set of variables:                         *)
(*   Spec       the recursive walk dig(base, max_depth) over a repository  *)
(*              whose blame authorship is chosen in Init;                  *)
(*   QuietSpec  the same walk when no git process fails or is cut short;   *)
(*   FnSpec     the functions on their own (parse_hunk_field,              *)
(*              Hunk.from_line, reducer, parse_hunks, find_revs, and the   *)
(*              body of one dig call) applied to inputs drawn from bounded *)
(*              sets; find_revs advances one hunk per step.                *)
(*                                                                         *)
(* Text is modelled by its tokens:                                         *)
(*   a hunk field "-12,3" is <<"-", 12, 3>>, "-12" is <<"-", 12>>;         *)
(*   a diff line is a record [kind, ...]: "+++ b/<path>" has kind "b",     *)
(*   "@@ -f1 +f2 @@ hint" has kind "@@", every other line kind "other";    *)
(*   a blame line "rev [tokens] number) text" is <<rev, ..., number>>.     *)
(***************************************************************************)
EXTENDS Integers, Sequences, FiniteSets, Bags, TLC

\* ------------------------------------------------------------------ bounds
\* The largest --max-depth option tried.
MaxDepthBound == 3
\* The number of lines of every blame stream of the walked repository.
BlameLen == 4
\* FnSpec: the longest provenance stream, the largest hunk start and count.
MaxLines == 4
MaxStart == 3
MaxCount == 2
\* FnSpec: the largest range start and count handed to reducer.
MaxRangeStart == 3
MaxRangeCount == 8
\* FnSpec: the longest diff handed to parse_hunks, in lines.
MaxDiffLines == 5

\* --------------------------------------------------------- program constants
_reduce_context == 2
\* The return code blame_hunks tolerates (the process died of SIGPIPE).
EPIPE_CODE == -13
\* Any other non-zero return code of a git process.
FAIL_CODE == 128

None == "<None>"

Max(x, y) == IF x >= y THEN x ELSE y
Min(x, y) == IF x <= y THEN x ELSE y

\* ------------------------------------------------------------ pure functions

\* field[1:].split(",") as integers; a missing count is appended as 0.
parse_hunk_field(field) ==
  LET nums == Tail(field)
  IN  IF Len(nums) < 2 THEN Append(nums, 0) ELSE nums

\* Hunk.from_line: deps starts empty, both fields are parsed, the hint is the
\* text after the second "@@" or "".
from_line(parent, child, path, line) ==
  [deps   |-> {},
   parent |-> parent,
   child  |-> child,
   path   |-> path,
   first  |-> parse_hunk_field(line.first),
   second |-> parse_hunk_field(line.second),
   hint   |-> line.hint,
   line   |-> line]

reducer(offset, size) ==
  LET new_size  == Max(2, size - 2 * _reduce_context)
      reduction == Min(0, size - new_size) \div 2
  IN  <<offset + reduction, new_size>>

reduce_context(hunk) ==
  [hunk EXCEPT !.first  = reducer(hunk.first[1], hunk.first[2]),
               !.second = reducer(hunk.second[1], hunk.second[2])]

\* parse_hunks over the lines of one diff: [outcome, hunks].  A non-zero
\* return code of the diff process raises after the lines were read; a failing
\* ParseLines without "assert path": a hunk header met before any path header
\* is passed over.
RECURSIVE ParseLinesSkipsPathless(_, _, _, _, _)
ParseLinesSkipsPathless(parent, child, lines, path, hunks) ==
  IF lines = <<>> THEN [outcome |-> "ok", hunks |-> hunks]
  ELSE LET line == Head(lines) IN
       IF line.kind = "b"
         THEN ParseLinesSkipsPathless(parent, child, Tail(lines), line.path, hunks)
       ELSE IF line.kind = "@@"
         THEN IF path \in {None, ""}
                THEN ParseLinesSkipsPathless(parent, child, Tail(lines), path, hunks)
                ELSE ParseLinesSkipsPathless(parent, child, Tail(lines), path,
                                Append(hunks, from_line(parent, child, path, line)))
       ELSE ParseLinesSkipsPathless(parent, child, Tail(lines), path, hunks)

\* "assert path" raises before the return code is looked at.
RECURSIVE ParseLines(_, _, _, _, _)
ParseLines(parent, child, lines, path, hunks) ==
  IF lines = <<>> THEN [outcome |-> "ok", hunks |-> hunks]
  ELSE LET line == Head(lines) IN
       IF line.kind = "b"
         THEN ParseLines(parent, child, Tail(lines), line.path, hunks)
       ELSE IF line.kind = "@@"
         THEN IF path \in {None, ""}
                THEN [outcome |-> "AssertionError", hunks |-> <<>>]
                ELSE ParseLines(parent, child, Tail(lines), path,
                                Append(hunks, from_line(parent, child, path, line)))
       ELSE ParseLines(parent, child, Tail(lines), path, hunks)

parse_hunks(parent, child, proc) ==
  LET r == ParseLines(parent, child, proc.out, None, <<>>)
  IN  IF r.outcome # "ok" THEN r
      ELSE IF proc.rc # 0 THEN [outcome |-> "CalledProcessError", hunks |-> <<>>]
      ELSE r

\* rev is the text before the first space, the number the last token before ")".
parse_blame_line(line) == <<line[1], line[Len(line)]>>

\* The state of one find_revs call: the reader's position pos in stream, the
\* locals last and line, the index i of the next hunk, and how it ended.
FindRevsStart(stream, hunks) ==
  [stream  |-> stream,
   hunks   |-> hunks,
   i       |-> 1,
   pos     |-> 0,
   last    |-> 0,
   line    |-> <<>>,
   outcome |-> IF hunks = <<>> THEN "ok" ELSE "running"]

\* One iteration of "for hunk in hunks".
FindRevsIter(s) ==
  LET hunk        == s.hunks[s.i]
      line_number == hunk.first[1]
      lines       == line_number - s.last
      n           == Len(s.stream)
      skipEnd     == s.pos + Max(0, lines)
  IN  IF skipEnd > n
        THEN \* next(reader) raises in the skipping loop: nothing catches it
             [s EXCEPT !.pos = n, !.last = line_number,
                       !.line = IF n > s.pos THEN s.stream[n] ELSE s.line,
                       !.outcome = "StopIteration"]
      ELSE
        LET line == IF lines > 0 THEN s.stream[skipEnd] ELSE s.line IN
        IF line = <<>>
          THEN [s EXCEPT !.last = line_number, !.outcome = "ok"]
        ELSE IF parse_blame_line(line)[2] # line_number
          THEN [s EXCEPT !.pos = skipEnd, !.last = line_number, !.line = line,
                         !.outcome = "AssertionError"]
        ELSE
          LET hunk_size == hunk.first[2]
              readEnd   == Min(n, skipEnd + Max(0, hunk_size))
              revs      == {parse_blame_line(s.stream[k])[1] : k \in (skipEnd + 1)..readEnd}
          IN  [s EXCEPT !.pos = readEnd,
                        !.last = line_number + hunk_size,
                        !.line = IF readEnd > skipEnd THEN s.stream[readEnd] ELSE line,
                        !.hunks[s.i].deps = @ \cup revs,
                        !.i = s.i + 1,
                        !.outcome = IF s.i = Len(s.hunks) THEN "ok" ELSE "running"]

RECURSIVE FindRevsRun(_)
FindRevsRun(s) == IF s.outcome = "running" THEN FindRevsRun(FindRevsIter(s)) ELSE s

\* find_revs(stream, hunks): the final state; .hunks carries the filled deps.
find_revs(stream, hunks) == FindRevsRun(FindRevsStart(stream, hunks))

\* blame_hunks: the distinct (parent, path) keys in order of first occurrence
\* (the key order of by_parent_path).
RECURSIVE GroupKeys(_, _)
GroupKeys(hunks, keys) ==
  IF hunks = <<>> THEN keys
  ELSE LET key == <<Head(hunks).parent, Head(hunks).path>>
       IN  GroupKeys(Tail(hunks),
                     IF \E k \in 1..Len(keys) : keys[k] = key THEN keys
                     ELSE Append(keys, key))

\* The indices (in hunks) of the hunks of one key, in order.
RECURSIVE GroupIndices(_, _, _)
GroupIndices(hunks, key, i) ==
  IF i > Len(hunks) THEN <<>>
  ELSE IF <<hunks[i].parent, hunks[i].path>> = key
    THEN <<i>> \o GroupIndices(hunks, key, i + 1)
    ELSE GroupIndices(hunks, key, i + 1)

\* The deps sets find_revs filled for the group idx, written back to hunks (a
\* reduced hunk shares its deps set with the hunk it was made from).
WriteBack(hunks, idx, group) ==
  [i \in 1..Len(hunks) |->
     IF \E j \in 1..Len(idx) : idx[j] = i
       THEN [hunks[i] EXCEPT !.deps = group[CHOOSE j \in 1..Len(idx) : idx[j] = i].deps]
       ELSE hunks[i]]

\* The loop over by_parent_path.keys() from group k on; procs[k] is the blame
\* process of group k.  The try surrounds the whole loop: a tolerated return
\* code ends it.
RECURSIVE BlameGroups(_, _, _, _)
BlameGroups(hunks, keys, k, procs) ==
  IF k > Len(keys) THEN [outcome |-> "ok", hunks |-> hunks, groups |-> k - 1]
  ELSE
    LET idx   == GroupIndices(hunks, keys[k], 1)
        group == [j \in 1..Len(idx) |-> reduce_context(hunks[idx[j]])]
        r     == find_revs(procs[k].out, group)
        done  == WriteBack(hunks, idx, r.hunks)
    IN  IF r.outcome # "ok"
          THEN [outcome |-> r.outcome, hunks |-> done, groups |-> k]
        ELSE IF procs[k].rc = 0
          THEN BlameGroups(done, keys, k + 1, procs)
        ELSE IF procs[k].rc = EPIPE_CODE
          THEN [outcome |-> "ok", hunks |-> done, groups |-> k]
        ELSE [outcome |-> "CalledProcessError", hunks |-> done, groups |-> k]

blame_hunks(hunks, procs) == BlameGroups(hunks, GroupKeys(hunks, <<>>), 1, procs)

\* --------------------------------------------------------------- repository
\* The revision ids blame can name: three commits and one boundary commit
\* (git blame marks it with the prefix "^").
Commits == {"a", "b", "c"}
Boundary == {"^d"}
Revs == Commits \cup Boundary
Bases == {"WORKING", "a"}

\* git rev-parse <rev>^@: a is a merge of b and c, c is the root.
Parents == [r \in Revs |-> IF r = "a" THEN <<"b", "c">>
                           ELSE IF r = "b" THEN <<"c">>
                           ELSE <<>>]

\* git diff <parent> [<child>]: one file with one hunk.
DiffOf(path) ==
  << [kind |-> "other", text |-> "diff --git"],
     [kind |-> "other", text |-> "--- a/"],
     [kind |-> "b", path |-> path],
     [kind |-> "@@", first |-> <<"-", 2, 4>>, second |-> <<"+", 2, 4>>, hint |-> ""] >>

DiffText(parent, child) ==
  IF parent = "c" /\ child = "a" THEN DiffOf("g") ELSE DiffOf("f")

\* The (rev, path) pairs blame is asked for, and the two authors of each stream.
StreamKeys == {<<"HEAD", "f">>, <<"b", "f">>, <<"c", "g">>, <<"c", "f">>}
AuthorPairs == {<<"a", "b">>, <<"b", "b">>, <<"c", "c">>, <<"c", "^d">>}

\* What the git processes of one expansion do: their return codes and how
\* many lines each blame process writes before it ends.  At most one process
\* of an expansion misbehaves.
ParentSlots == 1..2
GroupSlots == 1..2
NoFault ==
  [parents_rc |-> 0,
   diff_rc    |-> [i \in ParentSlots |-> 0],
   blame_rc   |-> [k \in GroupSlots |-> 0],
   blame_len  |-> [k \in GroupSlots |-> BlameLen]]
Envs ==
  {NoFault}
  \cup {[NoFault EXCEPT !.parents_rc = FAIL_CODE]}
  \cup {[NoFault EXCEPT !.diff_rc[i] = FAIL_CODE] : i \in ParentSlots}
  \cup {[NoFault EXCEPT !.blame_rc[k] = rc] : k \in GroupSlots, rc \in {FAIL_CODE, EPIPE_CODE}}
  \cup {[NoFault EXCEPT !.blame_len[k] = n] : k \in GroupSlots, n \in 0..(BlameLen - 1)}

VARIABLES
  authors,    \* the repository: StreamKeys -> the two authors of the stream
  base,       \* --base
  max_depth,  \* --max-depth
  stack,      \* the dig frames, innermost last: [base, depth, pc, depends]
  seen,       \* the set shared by all dig frames ("if not seen" makes a new
              \* set only in the first call: every later call gets a set
              \* that already holds its base)
  printed,    \* the bag of print_depend calls that returned: [rev, depth, is_seen]
  expanded,   \* per revision, how often the body under depth < max_depth began
  status,     \* "running", "done", or the exception that ended the walk
  probe       \* FnSpec: the function applied, its input and its result

vars == <<authors, base, max_depth, stack, seen, printed, expanded, status, probe>>

\* git blame -s <rev> -- <path>: line i is <<author, i>>, odd lines by the
\* first author of the stream, even lines by the second.
BlameText(key) ==
  [i \in 1..BlameLen |-> <<authors[key][IF i % 2 = 1 THEN 1 ELSE 2], i>>]

get_parents(b, rc) ==
  IF rc # 0 THEN [outcome |-> "CalledProcessError", parents |-> <<>>]
  ELSE [outcome |-> "ok", parents |-> Parents[b]]

\* "for parent in get_parents(base): hunks += parse_hunks(parent, base)"
RECURSIVE ParseParents(_, _, _, _, _)
ParseParents(parents, i, child, env, hunks) ==
  IF i > Len(parents) THEN [outcome |-> "ok", hunks |-> hunks]
  ELSE LET r == parse_hunks(parents[i], child,
                            [rc |-> env.diff_rc[i], out |-> DiffText(parents[i], child)])
       IN  IF r.outcome # "ok" THEN r
           ELSE ParseParents(parents, i + 1, child, env, hunks \o r.hunks)

\* DigHunks diffing a revision without parents against HEAD, as it does the
\* working tree.
DigHunksRootAgainstHead(b, env) ==
  IF b = "WORKING" \/ Parents[b] = <<>>
    THEN parse_hunks("HEAD", b, [rc |-> env.diff_rc[1], out |-> DiffText("HEAD", b)])
  ELSE LET gp == get_parents(b, env.parents_rc)
       IN  IF gp.outcome # "ok" THEN [outcome |-> gp.outcome, hunks |-> <<>>]
           ELSE ParseParents(gp.parents, 1, b, env, <<>>)

\* The hunks of dig's base: against HEAD for the working tree, else against
\* every parent.
DigHunks(b, env) ==
  IF b = "WORKING"
    THEN parse_hunks("HEAD", b, [rc |-> env.diff_rc[1], out |-> DiffText("HEAD", b)])
  ELSE LET gp == get_parents(b, env.parents_rc)
       IN  IF gp.outcome # "ok" THEN [outcome |-> gp.outcome, hunks |-> <<>>]
           ELSE ParseParents(gp.parents, 1, b, env, <<>>)

\* dig's body up to its loop: [outcome, depends].
Expansion(b, env) ==
  LET ph == DigHunks(b, env) IN
  IF ph.outcome # "ok" THEN [outcome |-> ph.outcome, depends |-> {}]
  ELSE
    LET keys  == GroupKeys(ph.hunks, <<>>)
        procs == [k \in 1..Len(keys) |->
                    [rc  |-> env.blame_rc[k],
                     out |-> SubSeq(BlameText(keys[k]), 1, env.blame_len[k])]]
        bh    == blame_hunks(ph.hunks, procs)
    IN  [outcome |-> bh.outcome,
         depends |-> UNION {bh.hunks[i].deps : i \in 1..Len(bh.hunks)}]

\* The blame processes of the groups of hunks, as Expansion starts them.
BlameProcs(hunks, env) ==
  LET keys == GroupKeys(hunks, <<>>)
  IN  [k \in 1..Len(keys) |->
         [rc  |-> env.blame_rc[k],
          out |-> SubSeq(BlameText(keys[k]), 1, env.blame_len[k])]]

\* dig's body up to its loop with its locals: the hunks as blame_hunks left
\* them, the number of groups find_revs ran for, and depends.
DigBody(b, env) ==
  LET ph == DigHunks(b, env)
      bh == blame_hunks(ph.hunks, BlameProcs(ph.hunks, env))
      ex == Expansion(b, env)
  IN  IF ph.outcome # "ok"
        THEN [outcome |-> ex.outcome, depends |-> ex.depends, parsed |-> <<>>,
              hunks |-> <<>>, groups |-> 0]
        ELSE [outcome |-> ex.outcome, depends |-> ex.depends, parsed |-> ph.hunks,
              hunks |-> bh.hunks, groups |-> bh.groups]

\* ---------------------------------------------------------------- the walk
Idle == [fn |-> "none"]
Frame(b, d) == [base |-> b, depth |-> d, pc |-> "enter", depends |-> {}]
Top == stack[Len(stack)]
Pop == SubSeq(stack, 1, Len(stack) - 1)

Init ==
  /\ authors \in [StreamKeys -> AuthorPairs]
  /\ base \in Bases
  \* only the working tree is blamed at HEAD: the stream is fixed when unread
  /\ base # "WORKING" => authors[<<"HEAD", "f">>] = <<"c", "c">>
  /\ max_depth \in 0..MaxDepthBound
  /\ stack = <<Frame(base, 0)>>
  /\ seen = {}
  /\ printed = EmptyBag
  /\ expanded = [r \in Revs \cup Bases |-> 0]
  /\ status = "running"
  /\ probe = Idle

\* dig is entered with depth >= max_depth: it returns at once.
Skip ==
  /\ status = "running" /\ stack # <<>>
  /\ Top.pc = "enter" /\ ~(Top.depth < max_depth)
  /\ stack' = Pop
  /\ status' = IF Len(stack) = 1 THEN "done" ELSE status
  /\ UNCHANGED <<authors, base, max_depth, seen, printed, expanded, probe>>

\* Expand with the test "depth <= max_depth" in place of "depth < max_depth".
ExpandDepthOffByOne ==
  /\ status = "running" /\ stack # <<>>
  /\ Top.pc = "enter" /\ Top.depth <= max_depth
  /\ \E env \in Envs :
       LET r == Expansion(Top.base, env) IN
       IF r.outcome = "ok"
         THEN /\ stack' = [stack EXCEPT ![Len(stack)].pc = "loop",
                                        ![Len(stack)].depends = r.depends]
              /\ status' = status
         ELSE /\ stack' = <<>>
              /\ status' = r.outcome
  /\ expanded' = [expanded EXCEPT ![Top.base] = @ + 1]
  /\ UNCHANGED <<authors, base, max_depth, seen, printed, probe>>

\* Expand without the test of depth against max_depth.
ExpandUnguarded ==
  /\ status = "running" /\ stack # <<>>
  /\ Top.pc = "enter"
  /\ \E env \in Envs :
       LET r == Expansion(Top.base, env) IN
       IF r.outcome = "ok"
         THEN /\ stack' = [stack EXCEPT ![Len(stack)].pc = "loop",
                                        ![Len(stack)].depends = r.depends]
              /\ status' = status
         ELSE /\ stack' = <<>>
              /\ status' = r.outcome
  /\ expanded' = [expanded EXCEPT ![Top.base] = @ + 1]
  /\ UNCHANGED <<authors, base, max_depth, seen, printed, probe>>

\* dig's body from "if base == WORKING" to "depends.update": an exception
\* leaves every frame.
Expand ==
  /\ status = "running" /\ stack # <<>>
  /\ Top.pc = "enter" /\ Top.depth < max_depth
  /\ \E env \in Envs :
       LET r == Expansion(Top.base, env) IN
       IF r.outcome = "ok"
         THEN /\ stack' = [stack EXCEPT ![Len(stack)].pc = "loop",
                                        ![Len(stack)].depends = r.depends]
              /\ status' = status
         ELSE /\ stack' = <<>>
              /\ status' = r.outcome
  /\ expanded' = [expanded EXCEPT ![Top.base] = @ + 1]
  /\ UNCHANGED <<authors, base, max_depth, seen, printed, probe>>

\* Visit without "seen.add(depend)".
VisitForgetsSeen ==
  /\ status = "running" /\ stack # <<>>
  /\ Top.pc = "loop"
  /\ \E depend \in Top.depends, ok \in BOOLEAN :
       LET is_seen == depend \in seen
           rest    == [stack EXCEPT ![Len(stack)].depends = @ \ {depend}]
       IN  IF ~ok
             THEN /\ stack' = <<>>
                  /\ status' = "CalledProcessError"
                  /\ UNCHANGED <<seen, printed>>
             ELSE /\ printed' = printed (+) SetToBag({[rev |-> depend, depth |-> Top.depth,
                                                       is_seen |-> is_seen]})
                  /\ seen' = seen
                  /\ stack' = IF is_seen THEN rest
                              ELSE Append(rest, Frame(depend, Top.depth + 1))
                  /\ status' = status
  /\ UNCHANGED <<authors, base, max_depth, expanded, probe>>

\* Visit calling dig for every depend, seen or not.
VisitAlwaysRecurse ==
  /\ status = "running" /\ stack # <<>>
  /\ Top.pc = "loop"
  /\ \E depend \in Top.depends, ok \in BOOLEAN :
       LET is_seen == depend \in seen
           rest    == [stack EXCEPT ![Len(stack)].depends = @ \ {depend}]
       IN  IF ~ok
             THEN /\ stack' = <<>>
                  /\ status' = "CalledProcessError"
                  /\ UNCHANGED <<seen, printed>>
             ELSE /\ printed' = printed (+) SetToBag({[rev |-> depend, depth |-> Top.depth,
                                                       is_seen |-> is_seen]})
                  /\ seen' = seen \cup {depend}
                  /\ stack' = Append(rest, Frame(depend, Top.depth + 1))
                  /\ status' = status
  /\ UNCHANGED <<authors, base, max_depth, expanded, probe>>

\* One iteration of "for depend in depends" (a set: any order); ok is whether
\* the git show of print_depend succeeds.
Visit ==
  /\ status = "running" /\ stack # <<>>
  /\ Top.pc = "loop"
  /\ \E depend \in Top.depends, ok \in BOOLEAN :
       LET is_seen == depend \in seen
           rest    == [stack EXCEPT ![Len(stack)].depends = @ \ {depend}]
       IN  IF ~ok
             THEN /\ stack' = <<>>
                  /\ status' = "CalledProcessError"
                  /\ UNCHANGED <<seen, printed>>
             ELSE /\ printed' = printed (+) SetToBag({[rev |-> depend, depth |-> Top.depth,
                                                       is_seen |-> is_seen]})
                  /\ seen' = seen \cup {depend}
                  /\ stack' = IF is_seen THEN rest
                              ELSE Append(rest, Frame(depend, Top.depth + 1))
                  /\ status' = status
  /\ UNCHANGED <<authors, base, max_depth, expanded, probe>>

\* The loop of dig is over: the frame returns.
Return ==
  /\ status = "running" /\ stack # <<>>
  /\ Top.pc = "loop" /\ Top.depends = {}
  /\ stack' = Pop
  /\ status' = IF Len(stack) = 1 THEN "done" ELSE status
  /\ UNCHANGED <<authors, base, max_depth, seen, printed, expanded, probe>>

Next == Skip \/ Expand \/ Visit \/ Return

Spec == Init /\ [][Next]_vars

\* The walk when every git process succeeds and writes its whole output.
QuietExpand ==
  /\ status = "running" /\ stack # <<>>
  /\ Top.pc = "enter" /\ Top.depth < max_depth
  /\ LET r == Expansion(Top.base, NoFault) IN
       /\ r.outcome = "ok"
       /\ stack' = [stack EXCEPT ![Len(stack)].pc = "loop",
                                 ![Len(stack)].depends = r.depends]
  /\ expanded' = [expanded EXCEPT ![Top.base] = @ + 1]
  /\ UNCHANGED <<authors, base, max_depth, seen, printed, status, probe>>

QuietVisit ==
  /\ status = "running" /\ stack # <<>>
  /\ Top.pc = "loop"
  /\ \E depend \in Top.depends :
       LET is_seen == depend \in seen
           rest    == [stack EXCEPT ![Len(stack)].depends = @ \ {depend}]
       IN  /\ printed' = printed (+) SetToBag({[rev |-> depend, depth |-> Top.depth,
                                                is_seen |-> is_seen]})
           /\ seen' = seen \cup {depend}
           /\ stack' = IF is_seen THEN rest
                       ELSE Append(rest, Frame(depend, Top.depth + 1))
  /\ UNCHANGED <<authors, base, max_depth, expanded, status, probe>>

QuietNext == Skip \/ QuietExpand \/ QuietVisit \/ Return

QuietSpec == Init /\ [][QuietNext]_vars

\* ------------------------------------------------- the functions on their own
FnRevs == {"A", "B"}

\* A hunk whose old range is (start, count), as parse_hunks makes it from
\* "@@ -start,count +start,count @@" under the path f.
HunkOf(start, count) ==
  from_line("p", "c", "f",
            [kind |-> "@@", first |-> <<"-", start, count>>,
             second |-> <<"+", start, count>>, hint |-> ""])

FnHunks == {HunkOf(st, ct) : st \in 0..MaxStart, ct \in 0..MaxCount}
FnHunkSeqs == {<<h>> : h \in FnHunks} \cup {<<h1, h2>> : h1 \in FnHunks, h2 \in FnHunks}

\* Provenance streams of n lines: numbered 1..n (gap = 0), or with line
\* number gap missing (the lines from position gap on are numbered one higher).
FnStreams ==
  UNION {{[i \in 1..n |-> <<revs[i], IF gap # 0 /\ i >= gap THEN i + 1 ELSE i>>] :
            revs \in [1..n -> FnRevs], gap \in 0..n} : n \in 0..MaxLines}

\* The range fields of a hunk header: with and without a count.
FnFields(sign) ==
  {<<sign, st>> : st \in 1..MaxStart}
  \cup {<<sign, st, ct>> : st \in 1..MaxStart, ct \in 0..MaxCount}
FnHeaders ==
  {[kind |-> "@@", first |-> f1, second |-> f2, hint |-> h] :
     f1 \in FnFields("-"), f2 \in FnFields("+"), h \in {"", "def f():"}}

\* The lines of a diff that matter to parse_hunks: the "diff --git a/p b/p"
\* line that opens the section of file p, the new-side headers "+++ b/p"
\* (also with nothing after the slash) and "+++ /dev/null" (a deleted file),
\* and a hunk header.
FnPaths == {"f", "g"}
FnDiffLines ==
  {[kind |-> "other", text |-> "diff --git", path |-> p] : p \in FnPaths}
  \cup {[kind |-> "b", path |-> p] : p \in FnPaths \cup {""}}
  \cup {[kind |-> "other", text |-> "+++ /dev/null"],
        [kind |-> "@@", first |-> <<"-", 1, 2>>, second |-> <<"+", 1, 2>>, hint |-> ""]}
FnDiffs == UNION {[1..n -> FnDiffLines] : n \in 0..MaxDiffLines}

FnInit ==
  /\ base = "WORKING"
  /\ max_depth = 0
  /\ stack = <<>>
  /\ seen = {}
  /\ printed = EmptyBag
  /\ expanded = [r \in Revs \cup Bases |-> 0]
  /\ status = "idle"
  /\ \/ /\ authors \in [StreamKeys -> AuthorPairs]
        /\ \E b \in Revs \cup Bases, env \in Envs :
             probe = [fn |-> "dig", input |-> [base |-> b, env |-> env],
                      done |-> FALSE, result |-> None]
     \/ /\ authors = [key \in StreamKeys |-> <<"c", "c">>]
        /\ \/ \E line \in FnHeaders :
                probe = [fn |-> "from_line", input |-> line, done |-> FALSE,
                         result |-> None]
           \/ \E offset \in 0..MaxRangeStart, size \in 0..MaxRangeCount :
                probe = [fn |-> "reducer", input |-> <<offset, size>>, done |-> FALSE,
                         result |-> None]
           \/ \E stream \in FnStreams, hunks \in FnHunkSeqs :
                probe = [fn |-> "find_revs", input |-> <<stream, hunks>>, done |-> FALSE,
                         result |-> FindRevsStart(stream, hunks)]
           \/ \E lines \in FnDiffs, rc \in {0, FAIL_CODE} :
                probe = [fn |-> "parse_hunks", input |-> [rc |-> rc, out |-> lines],
                         done |-> FALSE, result |-> None]

CallFromLine ==
  /\ probe.fn = "from_line" /\ ~probe.done
  /\ probe' = [probe EXCEPT !.done = TRUE,
                            !.result = from_line("p", "c", "f", probe.input)]
  /\ UNCHANGED <<authors, base, max_depth, stack, seen, printed, expanded, status>>

CallReducer ==
  /\ probe.fn = "reducer" /\ ~probe.done
  /\ probe' = [probe EXCEPT !.done = TRUE,
                            !.result = reducer(probe.input[1], probe.input[2])]
  /\ UNCHANGED <<authors, base, max_depth, stack, seen, printed, expanded, status>>

\* One iteration of the loop of find_revs; done once it returned or raised.
StepFindRevs ==
  /\ probe.fn = "find_revs" /\ ~probe.done
  /\ LET r == FindRevsIter(probe.result)
     IN  probe' = [probe EXCEPT !.result = r, !.done = (r.outcome # "running")]
  /\ UNCHANGED <<authors, base, max_depth, stack, seen, printed, expanded, status>>

CallParseHunks ==
  /\ probe.fn = "parse_hunks" /\ ~probe.done
  /\ probe' = [probe EXCEPT !.done = TRUE,
                            !.result = parse_hunks("p", "c", probe.input)]
  /\ UNCHANGED <<authors, base, max_depth, stack, seen, printed, expanded, status>>

\* The body of one dig call up to its loop over depends.
CallDigBody ==
  /\ probe.fn = "dig" /\ ~probe.done
  /\ probe' = [probe EXCEPT !.done = TRUE,
                            !.result = DigBody(probe.input.base, probe.input.env)]
  /\ UNCHANGED <<authors, base, max_depth, stack, seen, printed, expanded, status>>

FnNext == CallFromLine \/ CallReducer \/ StepFindRevs \/ CallParseHunks \/ CallDigBody

FnSpec == FnInit /\ [][FnNext]_vars

\* ------------------------------------------------------------------ claims
Nodes == Revs \cup Bases
Emitted == BagToSet(printed)

\* The candidate set dig computes for r when no process misbehaves, and what
\* is reachable through it.
Dep(r) == Expansion(r, NoFault).depends
RECURSIVE Reach(_, _)
Reach(S, n) == IF n = 0 THEN S ELSE Reach(S \cup UNION {Dep(r) : r \in S}, n - 1)
Descendants(r) == Reach(Dep(r), Cardinality(Nodes))
Acyclic == \A r \in Nodes : r \notin Descendants(r)

ProbeStream == probe.input[1]
ProbeHunks == probe.input[2]
Consecutive(stream) == \A i \in 1..Len(stream) : parse_blame_line(stream[i])[2] = i
FindRevsDone == probe.fn = "find_revs" /\ probe.done

\* C1 (FnSpec): for one hunk (s, c) with s >= 1 over a stream numbered 1..N,
\* N >= s + c, find_revs leaves deps = the revisions of lines s .. s+c-1.
C1_DepsAreLinesOfOldRange ==
  (/\ FindRevsDone
   /\ Len(ProbeHunks) = 1
   /\ ProbeHunks[1].first[1] >= 1
   /\ Consecutive(ProbeStream)
   /\ Len(ProbeStream) >= ProbeHunks[1].first[1] + ProbeHunks[1].first[2])
  => LET st == ProbeHunks[1].first[1]
         ct == ProbeHunks[1].first[2]
     IN  /\ probe.result.outcome = "ok"
         /\ probe.result.hunks[1].deps =
              {parse_blame_line(ProbeStream[k])[1] : k \in st..(st + ct - 1)}

\* C2 (Spec): when the dependency relation is acyclic, no revision is expanded
\* more than once in a walk.
C2_NoRevisionExpandedTwice ==
  (\A r \in Nodes : expanded[r] <= 1) \/ ~Acyclic

\* C2 witness: an acyclic history in which a revision was reached a second
\* time (emitted as already followed) and has been expanded once.
C2_Witness ==
  /\ \E e \in Emitted : e.is_seen /\ expanded[e.rev] = 1
  /\ Acyclic

\* C3 (Spec): a boundary revision ("^" prefix) is never emitted and never
\* handed to a recursive dig call.
C3_BoundaryNeverEmittedNorExpanded ==
  \A r \in Boundary :
    /\ \A e \in Emitted : e.rev # r
    /\ \A i \in 1..Len(stack) : stack[i].base # r

\* The old ranges of one file's hunks: starts from 1 on, strictly increasing,
\* no overlap.
WellFormed(hunks) ==
  /\ \A i \in 1..Len(hunks) : hunks[i].first[1] >= 1
  /\ \A i \in 1..(Len(hunks) - 1) :
       /\ hunks[i].first[1] < hunks[i + 1].first[1]
       /\ hunks[i].first[1] + hunks[i].first[2] <= hunks[i + 1].first[1]

\* C4 (FnSpec): over a consecutively numbered stream and hunks with
\* increasing, non-overlapping old ranges, find_revs always returns normally,
\* however short the stream is.
C4_ExhaustionReturnsNormally ==
  (FindRevsDone /\ Consecutive(ProbeStream) /\ WellFormed(ProbeHunks))
  => probe.result.outcome = "ok"

\* C5 (Spec): a git process failing while a dependency is being expanded ends
\* only that dig frame: the walk keeps running with the enclosing frames,
\* whose remaining candidates are still to be processed.
C5_FailureAbortsOnlyOneExpansion ==
  [][(/\ status = "running" /\ Len(stack) > 1 /\ Top.pc = "enter"
      /\ stack[Len(stack) - 1].depends # {}
      /\ status' \notin {"StopIteration", "AssertionError"})
     => (status' = "running" /\ Len(stack') >= Len(stack) - 1)]_vars

\* C6 (FnSpec): a line read for a hunk whose number is not the one after the
\* line before it makes find_revs end in the fatal consistency error.
C6_ReadLinesAreNumbered ==
  (/\ FindRevsDone
   /\ Len(ProbeHunks) = 1
   /\ \E k \in (ProbeHunks[1].first[1] + 1)..probe.result.pos :
        parse_blame_line(ProbeStream[k])[2] # parse_blame_line(ProbeStream[k - 1])[2] + 1)
  => probe.result.outcome = "AssertionError"

\* C7 (FnSpec): a range field without a count parses to count 1.
C7_ImplicitCountIsOne ==
  (probe.fn = "from_line" /\ probe.done)
  => /\ Len(probe.input.first) = 2 => probe.result.first = <<probe.input.first[2], 1>>
     /\ Len(probe.input.second) = 2 => probe.result.second = <<probe.input.second[2], 1>>

\* C8 (FnSpec): reducer moves the start forward by the margin and shortens the
\* length by twice the margin; the length is floored at 2.
C8_ReducerShiftsAndShrinks ==
  (probe.fn = "reducer" /\ probe.done)
  => LET offset == probe.input[1]
         size   == probe.input[2]
     IN  IF size - 2 * _reduce_context >= 2
           THEN probe.result = <<offset + _reduce_context, size - 2 * _reduce_context>>
           ELSE probe.result[2] = 2

\* C9 (Spec): every emission happens at a depth d with 0 <= d < max_depth;
\* with max_depth = 0 nothing is emitted, visited or expanded.
C9_EmissionsBelowMaxDepth ==
  /\ \A e \in Emitted : 0 <= e.depth /\ e.depth < max_depth
  /\ max_depth = 0 => /\ printed = EmptyBag
                      /\ seen = {}
                      /\ \A r \in Nodes : expanded[r] = 0

\* C9 witness: an emission at the deepest depth the largest max_depth allows.
C9_Witness ==
  \E e \in Emitted : e.depth = max_depth - 1 /\ max_depth = MaxDepthBound

\* The steps a dig call entered at depth d can still take: one to return at
\* once, or its expansion, one visit and one call per candidate, and its
\* return.
RECURSIVE DigSteps(_)
DigSteps(d) ==
  IF d >= max_depth THEN 1
  ELSE 2 + Cardinality(Revs) * (1 + DigSteps(d + 1))
FrameSteps(f) ==
  IF f.pc = "enter" THEN DigSteps(f.depth)
  ELSE 1 + Cardinality(f.depends) * (1 + DigSteps(f.depth + 1))
RECURSIVE StackSteps(_)
StackSteps(st) == IF st = <<>> THEN 0 ELSE FrameSteps(Head(st)) + StackSteps(Tail(st))

\* No dig frame is deeper than max_depth, and the walk runs exactly while a
\* frame is left (a frame always has a step to take: Skip or Expand when
\* entered, Visit or Return in its loop).
WalkShape ==
  /\ \A i \in 1..Len(stack) : stack[i].depth <= max_depth
  /\ (status = "running") <=> (stack # <<>>)

\* C10 (Spec): the walk terminates, and no dig call has a depth above
\* max_depth: every step of the walk lowers the natural number
\* StackSteps(stack), which bounds the steps left, and keeps WalkShape.
C10_TerminatesWithinDepth ==
  /\ WalkShape
  /\ [][StackSteps(stack') < StackSteps(stack) /\ WalkShape']_vars

\* C10 witness: a walk over a cyclic dependency relation that has returned
\* after entering dig at depth max_depth.
C10_Witness ==
  /\ status = "done"
  /\ ~Acyclic
  /\ \E r \in seen : expanded[r] = 0

\* The revisions without parents.
Roots == {r \in Commits : Parents[r] = <<>>}

\* A dig frame of a root was pushed after the root's un-annotated emission
\* one level up, holds no candidates, and is the innermost frame.
RootFrames ==
  \A i \in 1..Len(stack) :
    stack[i].base \in Roots
    => /\ [rev |-> stack[i].base, depth |-> stack[i].depth - 1, is_seen |-> FALSE]
            \in Emitted
       /\ stack[i].depends = {}
       /\ i = Len(stack)

\* C11 (Spec): a root among the candidates of a frame leaves the candidates
\* only by being emitted at that frame's depth; unless a git process fails,
\* a step of the root's own dig frame emits nothing, calls no dig, raises
\* nothing, finds no candidates, and returns to the enclosing frame, whose
\* remaining candidates are untouched.
C11_RootExpandsToNothing ==
  /\ RootFrames
  /\ [][/\ RootFrames'
        /\ \A r \in Roots :
             (/\ status = "running" /\ stack # <<>> /\ Top.pc = "loop"
              /\ r \in Top.depends
              /\ status' = "running" /\ Len(stack') >= Len(stack)
              /\ r \notin stack'[Len(stack)].depends)
             => \E is_seen \in BOOLEAN :
                  LET e == [rev |-> r, depth |-> Top.depth, is_seen |-> is_seen]
                  IN  CopiesIn(e, printed') = CopiesIn(e, printed) + 1
        /\ (/\ status = "running" /\ stack # <<>> /\ Top.base \in Roots
            /\ status' # "CalledProcessError")
           => /\ status' = "running"
              /\ printed' = printed /\ seen' = seen
              /\ \/ stack' = Pop
                 \/ /\ Top.pc = "enter"
                    /\ stack' = [stack EXCEPT ![Len(stack)].pc = "loop"]]_vars

\* C11 witness: the dig call of a root, entered below max_depth, has returned
\* and the enclosing frame still has a candidate to process.
C11_Witness ==
  \E r \in Roots :
    /\ expanded[r] = 1
    /\ [rev |-> r, depth |-> 0, is_seen |-> FALSE] \in Emitted
    /\ status = "running" /\ Len(stack) = 1
    /\ Top.pc = "loop" /\ Top.depends # {}

DigDone == probe.fn = "dig" /\ probe.done

\* The union, over every hunk, of what find_revs makes of the hunk's group
\* and the output of the group's own blame process.
CorrelatedDeps(hunks, env) ==
  LET keys  == GroupKeys(hunks, <<>>)
      procs == BlameProcs(hunks, env)
  IN  UNION {LET idx   == GroupIndices(hunks, keys[k], 1)
                 group == [j \in 1..Len(idx) |-> reduce_context(hunks[idx[j]])]
                 r     == find_revs(procs[k].out, group)
             IN  UNION {r.hunks[j].deps : j \in 1..Len(idx)} : k \in 1..Len(keys)}

\* C12 (FnSpec): whenever the body of dig ends without an exception, its
\* candidate set is the union, over the hunks of the diffs against every
\* parent, of the revisions find_revs finds for the hunk in the blame output
\* of the hunk's parent and path.
C12_CandidatesAreUnionOverParents ==
  (DigDone /\ probe.result.outcome = "ok")
  => probe.result.depends = CorrelatedDeps(probe.result.parsed, probe.input.env)

\* C16 (FnSpec): whenever blame_hunks returns normally in the body of dig,
\* find_revs has run for every (parent, path) group of the revision's hunks,
\* also when a blame process ended with return code -13.
C16_EveryGroupCorrelated ==
  (DigDone /\ probe.result.outcome = "ok")
  => probe.result.groups = Len(GroupKeys(probe.result.parsed, <<>>))

ParseDone == probe.fn = "parse_hunks" /\ probe.done

\* A hunk header comes before every "+++ b/" line of the diff.
PathlessHeader(lines) ==
  \E k \in 1..Len(lines) :
    lines[k].kind = "@@" /\ \A j \in 1..(k - 1) : lines[j].kind # "b"

\* C13 (FnSpec): a diff with a hunk header before any path header makes
\* parse_hunks end in AssertionError without a hunk list, and every hunk of a
\* list parse_hunks returns has a non-empty path.
C13_HeaderBeforePathIsFatal ==
  ParseDone
  => /\ PathlessHeader(probe.input.out)
        => probe.result.outcome = "AssertionError" /\ probe.result.hunks = <<>>
     /\ probe.result.outcome = "ok"
        => \A i \in 1..Len(probe.result.hunks) :
             probe.result.hunks[i].path \notin {None, ""}

\* C13 witness: parse_hunks raised on a diff whose first hunk header has no
\* path header before it, although a later file has both.
C13_Witness ==
  /\ ParseDone
  /\ PathlessHeader(probe.input.out)
  /\ \E k \in 1..Len(probe.input.out) : probe.input.out[k].kind = "b"
  /\ probe.result.outcome = "AssertionError"

\* The sections of a diff: line k belongs to the file section opened by the
\* last "diff --git" line before it (0: none).
IsSectionLine(line) == line.kind = "other" /\ line.text = "diff --git"
IsNewSide(line) == line.kind = "b" \/ (line.kind = "other" /\ line.text = "+++ /dev/null")
SectionStart(lines, k) ==
  LET S == {j \in 1..(k - 1) : IsSectionLine(lines[j])}
  IN  IF S = {} THEN 0 ELSE CHOOSE j \in S : \A i \in S : i <= j

\* A diff as git writes it: a new-side header names the file of its section
\* or /dev/null, a section has one at most, and the hunk headers of a section
\* follow its new-side header.
WellSectioned(lines) ==
  \A k \in 1..Len(lines) :
    LET st == SectionStart(lines, k) IN
    /\ lines[k].kind = "b" => st > 0 /\ lines[k].path = lines[st].path
    /\ IsNewSide(lines[k])
       => st > 0 /\ \A j \in (st + 1)..(k - 1) : ~IsNewSide(lines[j])
    /\ lines[k].kind = "@@"
       => st > 0 /\ \E j \in (st + 1)..(k - 1) : IsNewSide(lines[j])

\* The positions of the hunk headers of a diff, in order.
HeaderPositions(lines) ==
  SelectSeq([k \in 1..Len(lines) |-> k], LAMBDA k : lines[k].kind = "@@")

\* C20 (FnSpec): every hunk parse_hunks returns for a diff as git writes it
\* has the path of the file section its header stands in, also when the
\* new-side header of that section is "+++ /dev/null".
C20_HunkPathIsItsSection ==
  (ParseDone /\ WellSectioned(probe.input.out) /\ probe.result.outcome = "ok")
  => LET lines == probe.input.out
         pos   == HeaderPositions(lines)
     IN  /\ Len(probe.result.hunks) = Len(pos)
         /\ \A i \in 1..Len(pos) :
              probe.result.hunks[i].path = lines[SectionStart(lines, pos[i])].path

\* The body of a dig call for r has begun under depth < max_depth, or a dig
\* call for r is on the stack.
ExpandedOrOnStack(r) ==
  expanded[r] >= 1 \/ \E i \in 1..Len(stack) : stack[i].base = r

\* C14 (Spec): every revision in seen has been expanded or is being expanded,
\* and so has every revision emitted as already followed.
C14_SeenAreExpanded ==
  /\ \A r \in seen : ExpandedOrOnStack(r)
  /\ \A e \in Emitted : e.is_seen => ExpandedOrOnStack(e.rev)

\* The revisions a chain of 1..d dependency edges leads to from b.
ReachWithin(b, d) == IF d = 0 THEN {} ELSE Reach(Dep(b), d - 1)

\* C15 (QuietSpec): when the dependency relation is acyclic and the walk has
\* returned, every revision within max_depth dependency edges of the base
\* has been emitted, whatever the order the candidates were taken in.
C15_ReachableAreEmitted ==
  (status = "done" /\ Acyclic)
  => \A r \in ReachWithin(base, max_depth) : \E e \in Emitted : e.rev = r

\* C17 (FnSpec): over a stream numbered consecutively from 1, however short,
\* and hunks with start >= 1, increasing starts and no overlap, find_revs
\* never fails its assertion, and after a hunk whose lines were all there to
\* read, last is the number of lines read from the stream.
C17_AssertionNeverFails ==
  (probe.fn = "find_revs" /\ Consecutive(ProbeStream) /\ WellFormed(ProbeHunks))
  => LET s == probe.result IN
     /\ s.outcome # "AssertionError"
     /\ (/\ s.outcome \in {"running", "ok"} /\ s.i > 1
         /\ Len(ProbeStream) >= ProbeHunks[s.i - 1].first[1] + ProbeHunks[s.i - 1].first[2])
        => s.last = s.pos

\* C18 (FnSpec): for start >= 1 and count >= 0, reducer returns a range inside
\* the one it was given: the start does not move back and stays >= 1, the
\* count does not grow, and the end does not move forward.
C18_ReducerOnlyShrinks ==
  (probe.fn = "reducer" /\ probe.done /\ probe.input[1] >= 1)
  => LET start == probe.input[1]
         count == probe.input[2]
     IN  /\ probe.result[1] >= start
         /\ probe.result[1] >= 1
         /\ probe.result[2] <= count
         /\ probe.result[1] + probe.result[2] <= start + count

\* Each revision has at most one un-annotated emission, every emitted
\* revision is in seen, and an annotated emission of a revision comes with an
\* un-annotated one of the same revision.
EmissionShape ==
  \A r \in Nodes :
    LET U == {e \in Emitted : e.rev = r /\ ~e.is_seen} IN
    /\ Cardinality(U) <= 1
    /\ \A e \in U : CopiesIn(e, printed) = 1
    /\ (\E e \in Emitted : e.rev = r) => r \in seen
    /\ (\E e \in Emitted : e.rev = r /\ e.is_seen) => U # {}

\* C19 (Spec): a revision is emitted without the annotation at most once;
\* the step that does so adds it to seen and calls dig on it one level
\* deeper; an annotated emission comes after an un-annotated one of the same
\* revision and calls nothing.
C19_EmittedOnceThenAnnotated ==
  /\ EmissionShape
  /\ [][/\ EmissionShape'
        /\ \A e \in BagToSet(printed') :
             CopiesIn(e, printed') > CopiesIn(e, printed)
             => IF e.is_seen
                  THEN /\ e.rev \in seen
                       /\ \E u \in Emitted : u.rev = e.rev /\ ~u.is_seen
                       /\ seen' = seen
                       /\ Len(stack') = Len(stack)
                       /\ expanded' = expanded
                  ELSE /\ e.rev \notin seen
                       /\ seen' = seen \cup {e.rev}
                       /\ Len(stack') = Len(stack) + 1
                       /\ stack'[Len(stack')] = Frame(e.rev, e.depth + 1)
                       /\ e.depth = Top.depth]_vars

\* C19 witness: one revision has been emitted both without and with the
\* annotation.
C19_Witness ==
  \E u \in Emitted, e \in Emitted : u.rev = e.rev /\ ~u.is_seen /\ e.is_seen
====
